---- MODULE Spec2Model ----
(***************************************************************************)
(* rad patch: the command line (Options::from_args, run), publication of  *)
(* a patch as an annotated tag (create, create_patch, sync), its discovery *)
(* over the local and the tracked peers (list, list_by_state, print) and   *)
(* its classification as Open or Merged.                                   *)
(*                                                                         *)
(* Strings are sequences of one-character strings, so that concatenation,  *)
(* prefix stripping and line splitting are computed, not assumed.          *)
(***************************************************************************)
EXTENDS Integers, Sequences, FiniteSets, TLC

\* ------------------------------------------------------------- bounds
MaxCommits == 3
NRuns == 2
MaxTitleLen == 2
MaxDescLen == 2
MaxArgs == 2

\* ---------------------------------------------------------- constants
\* git::Oid::zero(): stands for "no commit" (an unresolved reference)
NoCommit == 0

NL == "\n"
CR == "\r"

\* patch::TAG_PREFIX
TAG_PREFIX == <<"p", "a", "t", "c", "h", "e", "s", "/">>

\* Option<T>: None is the empty sequence, Some(x) the one-element sequence
None == <<>>
Some(x) == <<x>>

Commits == 1..MaxCommits
Runs == 1..NRuns

\* branch names of the working copy (head.shorthand())
Branches == {<<"f">>, <<"g">>}

\* the local peer, and project.remotes: the peers of the project's delegations,
\* the local peer among them
LocalPeer == "me"
Remotes == <<"p1", LocalPeer, "p2">>

\* mutant: every remote is tracked, the local peer too
TrackedWithLocal == Remotes

\* project::tracked(project, storage): the remotes other than the local peer,
\* in tracked order
TrackedPeers == SelectSeq(Remotes, LAMBDA p : p # LocalPeer)
Peers == {TrackedPeers[i] : i \in 1..Len(TrackedPeers)}

\* what a failing git collaborator returns: some anyhow::Error
GitErrors == {"e1", "e2"}

\* what the user types at the Title prompt and in the editor
Titles == {<<"T">>}
Descriptions == {<<>>, <<"d">>}

VARIABLES
    parents,       \* commit graph: created commit -> set of its parents
    head,          \* working copy: the branch HEAD points at
    tip,           \* working copy: branch name -> tip commit
    defaultTip,    \* local copy of the default branch tip
    localTags,     \* local peer's namespace: tag name -> tag
    remoteTags,    \* configured remote: tag name -> tag
    remoteBranch,  \* configured remote: branch name -> commit, NoCommit if absent
    ns,            \* tracked peer -> its namespace: None, or Some(tag name -> tag)
    fetched,       \* peer -> the tags it last fetched from the remote
    storageOk,     \* whether the local storage can be opened
    runs,          \* run -> the locals and the position of one `rad patch` run
    table,         \* the rows rendered by the step just taken, if it was a listing
    listResult     \* how that listing returned: "Ok" or "Err"; "none" otherwise

vars == <<parents, head, tip, defaultTip, localTags, remoteTags, remoteBranch,
          ns, fetched, storageOk, runs, table, listResult>>

repoVars == <<parents, head, tip, defaultTip>>

\* the table is a local of list: once list has returned, nothing is left of it
NoListing == table' = <<>> /\ listResult' = "none"

\* ------------------------------------------------------------ helpers
\* f with key k set to v (a ref update: creates or overwrites)
Put(f, k, v) == [x \in DOMAIN f \cup {k} |-> IF x = k THEN v ELSE f[x]]

Created == DOMAIN parents

RECURSIVE Ancestors(_)
\* the commits reachable from c by parent edges, c included
Ancestors(c) == {c} \cup UNION {Ancestors(p) : p \in parents[c]}

\* is_ancestor(candidate, of), ancestor-or-equal
is_ancestor(a, b) == a \in Created /\ b \in Created /\ a \in Ancestors(b)

\* ---------------------------------------------------------- the codec
RECURSIVE JoinSeqs(_, _)
\* [a, b, ...].join(sep)
JoinSeqs(parts, sep) ==
    IF Len(parts) = 0 THEN <<>>
    ELSE IF Len(parts) = 1 THEN parts[1]
    ELSE parts[1] \o sep \o JoinSeqs(Tail(parts), sep)

\* mutant: an empty description is left out, and the newline with it
MessageOfOmitsEmpty(title, description) ==
    IF description = <<>> THEN title ELSE JoinSeqs(<<title, description>>, <<NL>>)

\* let message = [title.clone(), description.clone()].join("\n");
MessageOf(title, description) == JoinSeqs(<<title, description>>, <<NL>>)

\* format!("{}{}", patch::TAG_PREFIX, &current_branch)
PatchTagName(current_branch) == TAG_PREFIX \o current_branch

\* ------------------------------------------------------------- states
NoRun == [pc |-> "idle", title |-> <<>>, description |-> <<>>, message |-> <<>>,
          branch |-> <<>>, tagName |-> <<>>, log |-> <<>>, ret |-> "none",
          err |-> "", tag |-> None,
          args |-> <<>>, options |-> None, current_branch |-> <<>>,
          record |-> None, synced |-> <<>>, out |-> "none"]

Init ==
    /\ parents = (1 :> {})
    /\ head \in Branches
    /\ tip = [b \in Branches |-> 1]
    /\ defaultTip = 1
    /\ localTags = <<>>
    /\ remoteTags = <<>>
    /\ remoteBranch = [b \in Branches |-> NoCommit]
    /\ ns = [p \in Peers |-> None]
    /\ fetched = [p \in Peers |-> <<>>]
    /\ storageOk = TRUE
    /\ runs = [r \in Runs |-> NoRun]
    /\ table = <<>>
    /\ listResult = "none"

\* ----------------------------------------------- the working copy (git)
NextCommit == Cardinality(Created) + 1

\* git commit on the checked-out branch
Commit ==
    /\ NextCommit <= MaxCommits
    /\ parents' = parents @@ (NextCommit :> {tip[head]})
    /\ tip' = [tip EXCEPT ![head] = NextCommit]
    /\ UNCHANGED <<head, defaultTip, localTags, remoteTags, remoteBranch, ns,
                   fetched, storageOk, runs>>
    /\ NoListing

\* git checkout --orphan + commit: a root that shares no history with the rest
CommitRoot ==
    /\ NextCommit <= MaxCommits
    /\ parents' = parents @@ (NextCommit :> {})
    /\ tip' = [tip EXCEPT ![head] = NextCommit]
    /\ UNCHANGED <<head, defaultTip, localTags, remoteTags, remoteBranch, ns,
                   fetched, storageOk, runs>>
    /\ NoListing

\* git checkout b
Checkout(b) ==
    /\ b # head
    /\ head' = b
    /\ UNCHANGED <<parents, tip, defaultTip, localTags, remoteTags, remoteBranch,
                   ns, fetched, storageOk, runs>>
    /\ NoListing

\* the default branch is fast-forwarded to an existing descendant c
DefaultFastForward(c) ==
    /\ c \in Created
    /\ c # defaultTip
    /\ is_ancestor(defaultTip, c)
    /\ defaultTip' = c
    /\ UNCHANGED <<parents, head, tip, localTags, remoteTags, remoteBranch, ns,
                   fetched, storageOk, runs>>
    /\ NoListing

\* c is merged into the default branch by a merge commit
DefaultMerge(c) ==
    /\ NextCommit <= MaxCommits
    /\ c \in Created
    /\ ~is_ancestor(c, defaultTip)
    /\ ~is_ancestor(defaultTip, c)
    /\ parents' = parents @@ (NextCommit :> {defaultTip, c})
    /\ defaultTip' = NextCommit
    /\ UNCHANGED <<head, tip, localTags, remoteTags, remoteBranch, ns, fetched,
                   storageOk, runs>>
    /\ NoListing

\* a commit lands on the default branch
DefaultCommit ==
    /\ NextCommit <= MaxCommits
    /\ parents' = parents @@ (NextCommit :> {defaultTip})
    /\ defaultTip' = NextCommit
    /\ UNCHANGED <<head, tip, localTags, remoteTags, remoteBranch, ns, fetched,
                   storageOk, runs>>
    /\ NoListing

\* ------------------------------------------------- create, create_patch
\* the tag object's content address: equal contents, equal id
TagId(t) == <<t.name, t.target, t.message>>

Logged(r, step, ok) == Append(runs[r].log, [step |-> step, ok |-> ok])

\* runs are numbered in the order they start
Starts(r) == runs[r].pc = "idle" /\ \A q \in Runs : q < r => runs[q].pc # "idle"

\* create: the user typed title and description and confirmed "Propose patch?"
Propose(r, title, description) ==
    /\ Starts(r)
    /\ runs' = [runs EXCEPT ![r].pc = "add_tag",
                            ![r].title = title,
                            ![r].description = description,
                            ![r].message = MessageOf(title, description)]
    /\ UNCHANGED <<repoVars, localTags, remoteTags, remoteBranch, ns, fetched,
                   storageOk>>
    /\ NoListing

\* mutant: the tag is made before the answer to "Propose patch?" is looked at
CancelAfterTag(r) ==
    /\ Starts(r)
    /\ runs' = [runs EXCEPT ![r].pc = "done", ![r].ret = "Canceled."]
    /\ localTags' = Put(localTags, TAG_PREFIX \o head,
                        [name |-> TAG_PREFIX \o head, target |-> tip[head],
                         message |-> Some(<<NL>>)])
    /\ UNCHANGED <<repoVars, remoteTags, remoteBranch, ns, fetched, storageOk>>
    /\ NoListing

\* create: the user declined "Propose patch?": Err(anyhow!("Canceled."))
Cancel(r) ==
    /\ Starts(r)
    /\ runs' = [runs EXCEPT ![r].pc = "done", ![r].ret = "Canceled."]
    /\ UNCHANGED <<repoVars, localTags, remoteTags, remoteBranch, ns, fetched,
                   storageOk>>
    /\ NoListing

\* git::add_tag(repo, message, name): an annotated tag of that name and message
\* is made at the tip of the current branch, in place of any tag of that name
git_add_tag(message, name) ==
    localTags' = Put(localTags, name,
                     [name |-> name, target |-> tip[head], message |-> Some(message)])

\* git::push_tag(name): the remote's tag of that name becomes the local one
git_push_tag(name) == remoteTags' = Put(remoteTags, name, localTags[name])

\* git::push_branch(branch): the remote's branch becomes the local one
git_push_branch(branch) ==
    remoteBranch' = [remoteBranch EXCEPT ![branch] = tip[branch]]

\* mutant: add_tag waits while another run is publishing the same tag name
add_tag_Ok_locked(r) ==
    LET name == PatchTagName(head)
    IN  /\ \A q \in Runs \ {r} :
               ~(runs[q].pc \in {"push_tag", "push_branch"} /\ runs[q].tagName = name)
        /\ git_add_tag(runs[r].message, name)
        /\ runs' = [runs EXCEPT ![r].pc = "push_tag",
                                ![r].branch = head,
                                ![r].tagName = name,
                                ![r].tag = Some(TagId(localTags'[name])),
                                ![r].log = Logged(r, "add_tag", TRUE)]
        /\ UNCHANGED <<remoteTags, remoteBranch>>

\* let tag = match git::add_tag(repo, message, &patch_tag_name) { Ok(tag) => tag, ..
add_tag_Ok(r) ==
    LET name == PatchTagName(head)
    IN  /\ git_add_tag(runs[r].message, name)
        /\ runs' = [runs EXCEPT ![r].pc = "push_tag",
                                ![r].branch = head,
                                ![r].tagName = name,
                                ![r].tag = Some(TagId(localTags'[name])),
                                ![r].log = Logged(r, "add_tag", TRUE)]
        /\ UNCHANGED <<remoteTags, remoteBranch>>

\* mutant: the failure of add_tag is ignored and the pipeline goes on
add_tag_Err_goes_on(r) ==
    /\ runs' = [runs EXCEPT ![r].pc = "push_tag",
                            ![r].branch = head,
                            ![r].tagName = PatchTagName(head),
                            ![r].log = Logged(r, "add_tag", FALSE)]
    /\ UNCHANGED <<localTags, remoteTags, remoteBranch>>

\* git::add_tag: Err(err) => { spinner.failed(); return Err(err); }
add_tag_Err(r) ==
    /\ \E err \in GitErrors :
           runs' = [runs EXCEPT ![r].pc = "done",
                                ![r].ret = "Err",
                                ![r].err = err,
                                ![r].branch = head,
                                ![r].tagName = PatchTagName(head),
                                ![r].log = Logged(r, "add_tag", FALSE)]
    /\ UNCHANGED <<localTags, remoteTags, remoteBranch>>

\* create_patch, step 1: "Adding tag..."
AddTag(r) ==
    /\ runs[r].pc = "add_tag"
    /\ add_tag_Ok(r) \/ add_tag_Err(r)
    /\ UNCHANGED <<repoVars, ns, fetched, storageOk>>
    /\ NoListing

\* match git::push_tag(&patch_tag_name) { Ok(output) => ..
push_tag_Ok(r) ==
    /\ git_push_tag(runs[r].tagName)
    /\ runs' = [runs EXCEPT ![r].pc = "push_branch",
                            ![r].log = Logged(r, "push_tag", TRUE)]
    /\ UNCHANGED <<localTags, remoteBranch>>

\* f without key k
Without(f, k) == [x \in DOMAIN f \ {k} |-> f[x]]

\* mutant: the failure of push_tag is ignored and the branch is pushed all the same
push_tag_Err_goes_on(r) ==
    /\ runs' = [runs EXCEPT ![r].pc = "push_branch",
                            ![r].log = Logged(r, "push_tag", FALSE)]
    /\ UNCHANGED <<localTags, remoteTags, remoteBranch>>

\* git::push_tag: Err(err) => { spinner.failed(); return Err(err); }
push_tag_Err(r) ==
    /\ \E err \in GitErrors :
           runs' = [runs EXCEPT ![r].pc = "done",
                                ![r].ret = "Err",
                                ![r].err = err,
                                ![r].log = Logged(r, "push_tag", FALSE)]
    /\ UNCHANGED <<localTags, remoteTags, remoteBranch>>

\* mutant: a failed push of the tag deletes the local tag again
PushTagRollsBack(r) ==
    /\ runs[r].pc = "push_tag"
    /\ \/ push_tag_Ok(r)
       \/ /\ localTags' = Without(localTags, runs[r].tagName)
          /\ runs' = [runs EXCEPT ![r].pc = "done",
                                  ![r].ret = "Err",
                                  ![r].log = Logged(r, "push_tag", FALSE)]
          /\ UNCHANGED <<remoteTags, remoteBranch>>
    /\ UNCHANGED <<repoVars, ns, fetched, storageOk>>
    /\ NoListing

\* create_patch, step 2: "Pushing tag..."
PushTag(r) ==
    /\ runs[r].pc = "push_tag"
    /\ push_tag_Ok(r) \/ push_tag_Err(r)
    /\ UNCHANGED <<repoVars, ns, fetched, storageOk>>
    /\ NoListing

\* match git::push_branch(current_branch) { Ok(output) => .. }; spinner.finish(); Ok(tag)
push_branch_Ok(r) ==
    /\ git_push_branch(runs[r].branch)
    /\ runs' = [runs EXCEPT ![r].pc = "done",
                            ![r].ret = "Ok",
                            ![r].log = Logged(r, "push_branch", TRUE)]
    /\ UNCHANGED <<localTags, remoteTags>>

\* mutant: a failed push of the branch takes the tag back from the remote
push_branch_Err_rolls_back(r) ==
    /\ runs' = [runs EXCEPT ![r].pc = "done",
                            ![r].ret = "Err",
                            ![r].log = Logged(r, "push_branch", FALSE)]
    /\ remoteTags' = Without(remoteTags, runs[r].tagName)
    /\ UNCHANGED <<localTags, remoteBranch>>

\* git::push_branch: Err(err) => { spinner.failed(); return Err(err); }
push_branch_Err(r) ==
    /\ \E err \in GitErrors :
           runs' = [runs EXCEPT ![r].pc = "done",
                                ![r].ret = "Err",
                                ![r].err = err,
                                ![r].log = Logged(r, "push_branch", FALSE)]
    /\ UNCHANGED <<localTags, remoteTags, remoteBranch>>

\* create_patch, step 3: "Pushing branch..."
PushBranch(r) ==
    /\ runs[r].pc = "push_branch"
    /\ push_branch_Ok(r) \/ push_branch_Err(r)
    /\ UNCHANGED <<repoVars, ns, fetched, storageOk>>
    /\ NoListing

create_patch(r) == AddTag(r) \/ PushTag(r) \/ PushBranch(r)

\* ------------------------------------------------------ the other peers
\* peer p fetches from the configured remote
PeerFetch(p) ==
    /\ fetched[p] # remoteTags
    /\ fetched' = [fetched EXCEPT ![p] = remoteTags]
    /\ UNCHANGED <<repoVars, localTags, remoteTags, remoteBranch, ns, storageOk,
                   runs>>
    /\ NoListing

\* a tracked peer's namespace gains a patch tag (seen through the storage)
PeerPublish(p, name, target, message) ==
    \E old \in {IF ns[p] = None THEN <<>> ELSE ns[p][1]},
       t \in {[name |-> name, target |-> target, message |-> message]} :
        /\ target \in Created
        /\ ~(name \in DOMAIN old /\ old[name] = t)
        /\ ns' = [ns EXCEPT ![p] = Some(Put(old, name, t))]
        /\ UNCHANGED <<repoVars, localTags, remoteTags, remoteBranch, fetched,
                       storageOk, runs>>
        /\ NoListing

\* a tracked peer's namespace is absent from, or unreadable in, the storage
NsUnavailable(p) ==
    /\ ns[p] # None
    /\ ns' = [ns EXCEPT ![p] = None]
    /\ UNCHANGED <<repoVars, localTags, remoteTags, remoteBranch, fetched,
                   storageOk, runs>>
    /\ NoListing

\* the local copy of the default branch is gone: its tip cannot be resolved
DefaultLost ==
    /\ defaultTip # NoCommit
    /\ defaultTip' = NoCommit
    /\ UNCHANGED <<parents, head, tip, localTags, remoteTags, remoteBranch, ns,
                   fetched, storageOk, runs>>
    /\ NoListing

\* the default branch is fetched again, its tip at commit c
DefaultResolved(c) ==
    /\ defaultTip = NoCommit
    /\ c \in Created
    /\ defaultTip' = c
    /\ UNCHANGED <<parents, head, tip, localTags, remoteTags, remoteBranch, ns,
                   fetched, storageOk, runs>>
    /\ NoListing

\* the local storage can no longer be opened, or can again
StorageFlip ==
    /\ storageOk' = ~storageOk
    /\ UNCHANGED <<repoVars, localTags, remoteTags, remoteBranch, ns, fetched,
                   runs>>
    /\ NoListing

\* ------------------------------------------------ list, list_by_state
\* a tag that is no patch: its name lacks the fixed prefix
OtherTag == <<"v">>

\* the tag names a namespace lists, in ref order
RefOrder == <<PatchTagName(<<"f">>), PatchTagName(<<"g">>), OtherTag>>

\* whether name starts with the fixed prefix
HasPrefix(name) ==
    Len(name) >= Len(TAG_PREFIX) /\ SubSeq(name, 1, Len(TAG_PREFIX)) = TAG_PREFIX

\* patch::Tag as list_by_state and print read it
PatchOf(peer, t) ==
    [id |-> TagId(t), peer |-> peer, name |-> t.name, commit |-> t.target,
     message |-> t.message]

RECURSIVE MapPatch(_, _)
MapPatch(peer, tags) ==
    IF tags = <<>> THEN <<>>
    ELSE <<PatchOf(peer, Head(tags))>> \o MapPatch(peer, Tail(tags))

RECURSIVE Refs(_, _)
\* the patch tags of a namespace among those named RefOrder[i..], in that
\* order; a tag whose name lacks the fixed prefix is passed over
Refs(tags, i) ==
    IF i > Len(RefOrder) THEN <<>>
    ELSE (IF RefOrder[i] \in DOMAIN tags /\ HasPrefix(RefOrder[i])
          THEN <<tags[RefOrder[i]]>> ELSE <<>>)
         \o Refs(tags, i + 1)

\* patch::all(project, None, &storage): the local peer's patches
all_local == MapPatch(LocalPeer, Refs(localTags, 1))

\* patch::all(project, Some(info), &storage): the patches of the peer that
\* info names; a namespace that is absent or unreadable gives none
all(p) ==
    IF p = LocalPeer THEN all_local
    ELSE IF ns[p] = None THEN <<>> ELSE MapPatch(p, Refs(ns[p][1], 1))

\* mutant: with the default branch unresolved every patch counts as merged
state_unresolved_merged(patch) ==
    IF defaultTip = NoCommit \/ is_ancestor(patch.commit, defaultTip)
    THEN "Merged" ELSE "Open"

\* patch::state(repo, patch)
state(patch) ==
    IF defaultTip # NoCommit /\ is_ancestor(patch.commit, defaultTip)
    THEN "Merged" ELSE "Open"

RECURSIVE TrackedUntilEmpty(_)
\* mutant: the loop over the tracked peers ends at the first peer without namespace
TrackedUntilEmpty(i) ==
    IF i > Len(TrackedPeers) \/ ns[TrackedPeers[i]] = None THEN <<>>
    ELSE all(TrackedPeers[i]) \o TrackedUntilEmpty(i + 1)

RECURSIVE TrackedDedup(_)
\* mutant: a tracked peer's patch is dropped when the local peer or a peer
\* before it holds a tag of the same name
TrackedDedup(i) ==
    IF i > Len(TrackedPeers) THEN <<>>
    ELSE SelectSeq(all(TrackedPeers[i]),
                   LAMBDA patch :
                       /\ patch.name \notin DOMAIN localTags
                       /\ \A j \in 1..(i - 1) :
                              \A k \in 1..Len(all(TrackedPeers[j])) :
                                  all(TrackedPeers[j])[k].name # patch.name)
         \o TrackedDedup(i + 1)

RECURSIVE Tracked(_)
\* for (_, info) in project::tracked(project, storage)? { patches.append(all(info)) }
Tracked(i) ==
    IF i > Len(TrackedPeers) THEN <<>>
    ELSE all(TrackedPeers[i]) \o Tracked(i + 1)

\* mutant: retain keeps the patches of the other state
RetainOther(patches, st) == SelectSeq(patches, LAMBDA patch : st # state(patch))

\* patches.retain(|patch| state == patch::state(repo, patch))
Retain(patches, st) == SelectSeq(patches, LAMBDA patch : st = state(patch))

\* mutant: the local peer's own patches are left out
RetainedTrackedOnly(st) == Retain(Tracked(1), st)

\* the patches of list_by_state after retain
Retained(st) == Retain(all_local \o Tracked(1), st)

RECURSIVE FirstLine(_)
\* the text before the first "\n" of message
FirstLine(message) ==
    IF message = <<>> \/ Head(message) = NL THEN <<>>
    ELSE <<Head(message)>> \o FirstLine(Tail(message))

\* mutant: the whole message is taken for the title
TitleWholeMessage(message) == message

\* message.lines().next().unwrap_or(""): a line ends at "\n" or at "\r\n"
Title(message) ==
    LET line == FirstLine(message)
        ended == Len(line) < Len(message)
    IN  IF ended /\ line # <<>> /\ line[Len(line)] = CR
        THEN SubSeq(line, 1, Len(line) - 1)
        ELSE line

\* mutant: a tag without message is printed too, under an empty title
print_unconditional(patch) ==
    <<[kind |-> "title",
       title |-> IF patch.message # None THEN Title(patch.message[1]) ELSE <<>>],
      [kind |-> "author", peer |-> patch.peer,
       you |-> (patch.peer = LocalPeer), id |-> patch.id]>>

\* print: the two rows of a patch; none for a tag without message
print(patch) ==
    IF patch.message # None
    THEN <<[kind |-> "title", title |-> Title(patch.message[1])],
           [kind |-> "author", peer |-> patch.peer,
            you |-> (patch.peer = LocalPeer), id |-> patch.id]>>
    ELSE <<>>

RECURSIVE PrintAll(_)
PrintAll(patches) ==
    IF patches = <<>> THEN <<>>
    ELSE print(Head(patches)) \o PrintAll(Tail(patches))

\* list_by_state: the rows it pushes
list_by_state(st) ==
    IF Retained(st) # <<>>
    THEN PrintAll(Retained(st))
    ELSE <<[kind |-> "none"]>>

HeaderRow(st) == [kind |-> "header", state |-> st]
BlankRow == [kind |-> "blank"]

\* list, with the storage opened: the table it renders
list_Ok ==
    /\ storageOk
    /\ table' = <<HeaderRow("Open"), BlankRow>> \o list_by_state("Open")
                \o <<BlankRow, BlankRow, HeaderRow("Merged"), BlankRow>>
                \o list_by_state("Merged")
    /\ listResult' = "Ok"

\* list, patch::all(..)? failing: nothing is rendered
list_Err ==
    /\ ~storageOk
    /\ table' = <<>>
    /\ listResult' = "Err"

\* rad patch --list
list ==
    /\ list_Ok \/ list_Err
    /\ UNCHANGED <<repoVars, localTags, remoteTags, remoteBranch, ns, fetched,
                   storageOk, runs>>

\* ------------------------------------------------- Options::from_args
\* the words of a command line
Words == {"--list", "--verbose", "--sync", "--no-sync", "--help", "--bogus"}

\* Options::from_args(args): the first argument, if there is one, is matched
\* and the options are returned; no other argument is read
from_args(args) ==
    LET dflt == [list |-> FALSE, verbose |-> FALSE, sync |-> TRUE]
        Ok(o) == [ok |-> TRUE, options |-> o]
    IN  IF args = <<>> THEN Ok(dflt)
        ELSE CASE args[1] = "--list" -> Ok([dflt EXCEPT !.list = TRUE])
               [] args[1] = "--verbose" -> Ok([dflt EXCEPT !.verbose = TRUE])
               [] args[1] = "--sync" -> Ok([dflt EXCEPT !.sync = TRUE])
               [] args[1] = "--no-sync" -> Ok([dflt EXCEPT !.sync = FALSE])
               [] args[1] = "--help" -> [ok |-> FALSE, error |-> "Help"]
               [] OTHER -> [ok |-> FALSE, error |-> "unexpected"]

\* ---------------------------------------------------------- run, create
\* how the command of run r ended: what create made of its own steps, or
\* what create_patch or the confirmation handed it
Outcome(r) ==
    IF runs[r].out # "none" THEN runs[r].out
    ELSE IF runs[r].ret \in {"Err", "Canceled."} THEN runs[r].ret
    ELSE "none"

\* the command line of run r is parsed; an error ends the run, and with
\* --list the run is a listing
Invoke(r, args) ==
    /\ Starts(r)
    /\ runs[r].args = <<>> /\ runs[r].options = None /\ runs[r].out = "none"
    /\ IF ~from_args(args).ok
       THEN /\ runs' = [runs EXCEPT ![r].args = args,
                                    ![r].pc = "done",
                                    ![r].out = from_args(args).error]
            /\ NoListing
       ELSE IF from_args(args).options.list
       THEN /\ list_Ok \/ list_Err
            /\ runs' = [runs EXCEPT ![r].args = args,
                                    ![r].options = Some(from_args(args).options),
                                    ![r].pc = "done",
                                    ![r].out = listResult']
       ELSE /\ runs' = [runs EXCEPT ![r].args = args,
                                    ![r].options = Some(from_args(args).options),
                                    ![r].current_branch = head]
            /\ NoListing
    /\ UNCHANGED <<repoVars, localTags, remoteTags, remoteBranch, ns, fetched,
                   storageOk>>

\* run r is in create, before the Title prompt
InCreate(r) == runs[r].options # None /\ runs[r].pc = "idle"

\* create_patch has returned Ok(tag) to create
Returned_Ok(r) ==
    /\ runs[r].pc = "done" /\ runs[r].ret = "Ok"
    /\ runs[r].options # None /\ runs[r].out = "none" /\ runs[r].record = None

\* mutant: the seed is synced whatever options.sync says
patches_create_Ok_syncs(r) ==
    runs' = [runs EXCEPT ![r].record =
                             Some([title |-> runs[r].title,
                                   description |-> runs[r].description,
                                   tag |-> runs[r].tag[1]]),
                         ![r].pc = "sync"]

\* let id = patches.create(&project.urn, &title, &description, target, tag, &[])?;
\* if options.sync { .. }
patches_create_Ok(r) ==
    runs' = [runs EXCEPT ![r].record =
                             Some([title |-> runs[r].title,
                                   description |-> runs[r].description,
                                   tag |-> runs[r].tag[1]]),
                         ![r].pc = IF runs[r].options[1].sync THEN "sync" ELSE "finished",
                         ![r].out = IF runs[r].options[1].sync THEN "none" ELSE "Ok"]

\* person::local(storage)?, Patches::new(..)? or patches.create(..)? failed
patches_create_Err(r) ==
    runs' = [runs EXCEPT ![r].pc = "finished", ![r].out = "Err"]

\* mutant: the patch record is written whatever create_patch returned
PatchesCreateAnyway(r) ==
    /\ runs[r].pc = "done" /\ runs[r].ret \in {"Ok", "Err"} /\ runs[r].tag # None
    /\ runs[r].options # None /\ runs[r].out = "none" /\ runs[r].record = None
    /\ patches_create_Ok(r) \/ patches_create_Err(r)
    /\ UNCHANGED <<repoVars, localTags, remoteTags, remoteBranch, ns, fetched,
                   storageOk>>
    /\ NoListing

\* create, after `let tag = create_patch(repo, &message, options.verbose)?;`
PatchesCreate(r) ==
    /\ Returned_Ok(r)
    /\ patches_create_Ok(r) \/ patches_create_Err(r)
    /\ UNCHANGED <<repoVars, localTags, remoteTags, remoteBranch, ns, fetched,
                   storageOk>>
    /\ NoListing

\* sync(current_branch.to_owned())?: rad_sync::run is called for the branch
\* create read at its start; its result is create's
Sync(r) ==
    /\ runs[r].pc = "sync"
    /\ \E res \in {"Ok", "Err"} :
           runs' = [runs EXCEPT ![r].synced = Append(@, runs[r].current_branch),
                                ![r].pc = "finished",
                                ![r].out = res]
    /\ UNCHANGED <<repoVars, localTags, remoteTags, remoteBranch, ns, fetched,
                   storageOk>>
    /\ NoListing

Next ==
    \/ Commit
    \/ \E b \in Branches : Checkout(b)
    \/ \E r \in Runs, t \in Titles, d \in Descriptions : Propose(r, t, d)
    \/ \E r \in Runs : Cancel(r)
    \/ \E r \in Runs : create_patch(r)
    \/ \E p \in Peers : PeerFetch(p)

Spec == Init /\ [][Next]_vars

\* what a tracked peer may have published: a patch tag, with or without message
PeerMessages == {None} \cup {Some(MessageOf(t, <<>>)) : t \in Titles}

\* the one run of the discovery specification
DiscoverRuns == {1}

NextDiscover ==
    \/ Commit
    \/ CommitRoot
    \/ \E c \in Commits : DefaultFastForward(c)
    \/ \E c \in Commits : DefaultMerge(c)
    \/ DefaultCommit
    \/ \E r \in DiscoverRuns, t \in Titles : Propose(r, t, <<>>)
    \/ \E r \in DiscoverRuns : create_patch(r)
    \/ \E p \in Peers, c \in Commits, m \in PeerMessages :
          PeerPublish(p, PatchTagName(<<"f">>), c, m)
    \/ \E p \in Peers : NsUnavailable(p)
    \/ StorageFlip
    \/ list

SpecDiscover == Init /\ [][NextDiscover]_vars

\* malformed tags and an unresolved default branch: a tracked peer may hold,
\* beside its patch tag, a tag that is no patch; create needs the default
\* branch resolved (resolve_reference_from_short_name(..)?)
NextEdge ==
    \/ Commit
    \/ DefaultLost
    \/ \E c \in Commits : DefaultResolved(c)
    \/ \E r \in DiscoverRuns, t \in Titles :
          defaultTip # NoCommit /\ Propose(r, t, <<>>)
    \/ \E r \in DiscoverRuns : create_patch(r)
    \/ \E p \in Peers, c \in Commits, m \in PeerMessages :
          PeerPublish(p, PatchTagName(<<"f">>), c, m)
    \/ \E p \in Peers, t \in Titles :
          PeerPublish(p, OtherTag, 1, Some(MessageOf(t, <<>>)))
    \/ list

SpecEdge == Init /\ [][NextEdge]_vars

\* the command lines of at most MaxArgs words
ArgLists == UNION {[1..n -> Words] : n \in 0..MaxArgs}

\* the one run of the command specification
CreateRuns == {1}

\* rad patch, from its command line to its result
NextCreate ==
    \/ Commit
    \/ \E b \in Branches : Checkout(b)
    \/ \E r \in CreateRuns, args \in ArgLists : Invoke(r, args)
    \/ \E r \in CreateRuns, t \in Titles, d \in Descriptions :
          InCreate(r) /\ Propose(r, t, d)
    \/ \E r \in CreateRuns : InCreate(r) /\ Cancel(r)
    \/ \E r \in CreateRuns : create_patch(r)
    \/ \E r \in CreateRuns : PatchesCreate(r)
    \/ \E r \in CreateRuns : Sync(r)

SpecCreate == Init /\ [][NextCreate]_vars

\* ------------------------------------------------------------ decoding
\* the branch name a tag name was made from
SourceRefName(name) == SubSeq(name, Len(TAG_PREFIX) + 1, Len(name))

\* what follows the first line of message and its newline
Remainder(message) == SubSeq(message, Len(FirstLine(message)) + 2, Len(message))

\* decode(tag_name, tag_message): the fields of the patch, or MalformedTag
decode(name, message) ==
    IF ~HasPrefix(name) \/ message = None
    THEN [error |-> "MalformedTag"]
    ELSE [source_ref_name |-> SourceRefName(name),
          title |-> Title(message[1]),
          description |-> Remainder(message[1])]

\* all strings over chars of length at most n
StringsUpTo(chars, n) == UNION {[1..k -> chars] : k \in 0..n}

\* a title is one line of text: no newline in it, and no carriage return at
\* its end, which would make a "\r\n" line ending with the newline that follows
ValidTitle(t) ==
    /\ \A i \in 1..Len(t) : t[i] # NL
    /\ t # <<>> => t[Len(t)] # CR

CodecTitles == {t \in StringsUpTo({"a", "b", NL, CR}, MaxTitleLen) : ValidTitle(t)}
CodecDescriptions == StringsUpTo({"a", NL, CR}, MaxDescLen)

NextCodec ==
    \/ \E b \in Branches : Checkout(b)
    \/ \E r \in DiscoverRuns, t \in CodecTitles, d \in CodecDescriptions :
          Propose(r, t, d)
    \/ \E r \in DiscoverRuns : create_patch(r)
    \/ list

SpecCodec == Init /\ [][NextCodec]_vars

\* ===================================================== the publication
\* the three steps of create_patch, in order
Steps == <<"add_tag", "push_tag", "push_branch">>

\* run r's last step failed, and it was step i of the pipeline
FailedAt(r, i) == Len(runs[r].log) = i /\ ~runs[r].log[i].ok

\* the step just taken is run r's failing step i
FailsNow(r, i) ==
    /\ Len(runs[r].log) = i - 1
    /\ Len(runs'[r].log) = i
    /\ ~runs'[r].log[i].ok

\* the patches of a local-only discovery that carry tag name n
LocalNamed(n) == {i \in 1..Len(all_local) : all_local[i].name = n}

\* the commits a peer can fetch from the remote: those of the branches pushed
\* there, and the default branch's
Fetchable ==
    UNION {Ancestors(remoteBranch[b]) : b \in {x \in Branches : remoteBranch[x] # NoCommit}}
    \cup Ancestors(defaultTip)

\* C1: in every run of create_patch the steps attempted are, in this order,
\* add_tag, push_tag, push_branch, each at most once; a step is attempted only
\* after the one before it succeeded; after the first failing step nothing
\* more is attempted and the run returns an error; Ok takes all three.
C1_PipelineOrder ==
    \A r \in Runs :
        LET log == runs[r].log
        IN  /\ Len(log) <= Len(Steps)
            /\ \A i \in 1..Len(log) : log[i].step = Steps[i]
            /\ \A i \in 1..(Len(log) - 1) : log[i].ok
            /\ (Len(log) > 0 /\ ~log[Len(log)].ok)
                   => runs[r].pc = "done" /\ runs[r].ret = "Err"
            /\ runs[r].ret = "Ok"
                   => Len(log) = Len(Steps) /\ \A i \in 1..Len(log) : log[i].ok

\* a run whose push of the tag failed: it returned the error without pushing
\* the branch
C1_Witness ==
    \E r \in Runs : FailedAt(r, 2) /\ runs[r].ret = "Err" /\ runs[r].log[1].ok

C3_BranchPushFailed ==
    /\ [](\A r \in Runs :
            FailedAt(r, 3) =>
                /\ runs[r].ret = "Err"
                /\ runs[r].tagName \in DOMAIN localTags
                /\ runs[r].tagName \in DOMAIN remoteTags)
    /\ [][\A r \in Runs :
            FailsNow(r, 3) =>
                /\ localTags' = localTags
                /\ remoteTags' = remoteTags
                /\ remoteBranch' = remoteBranch]_vars

\* the tag is on the remote and a peer has fetched it, the source branch was
\* never pushed, and the tag's target is a commit no peer can fetch
C3_Witness ==
    \E r \in Runs :
        /\ FailedAt(r, 3)
        /\ remoteBranch[runs[r].branch] = NoCommit
        /\ remoteTags[runs[r].tagName].target \notin Fetchable
        /\ \E p \in Peers : runs[r].tagName \in DOMAIN fetched[p]

\* C4: when add_tag fails, the run ends with an error having attempted no
\* push, and the failing step leaves the remote and the peers as they were.
C4_TagCreationFailed ==
    /\ [](\A r \in Runs :
            (Len(runs[r].log) > 0 /\ ~runs[r].log[1].ok) =>
                /\ runs[r].log = <<[step |-> "add_tag", ok |-> FALSE]>>
                /\ runs[r].pc = "done"
                /\ runs[r].ret = "Err"
                /\ runs[r].tag = None)
    /\ [][\A r \in Runs :
            FailsNow(r, 1) =>
                /\ remoteTags' = remoteTags
                /\ remoteBranch' = remoteBranch
                /\ fetched' = fetched]_vars

\* the tag creation of the first publication failed: nothing is anywhere
C4_Witness ==
    \E r \in Runs :
        /\ FailedAt(r, 1)
        /\ runs[r].ret = "Err"
        /\ localTags = <<>>
        /\ remoteTags = <<>>

\* run r's add_tag succeeds in the step just taken
TagsNow(r) == runs[r].pc = "add_tag" /\ runs'[r].pc = "push_tag"

\* C8: the tag a publication creates is named the fixed prefix followed by
\* the current branch name, points at the tip of the current branch, and its
\* message is the title, one newline, the description (empty or not); no other
\* tag of the namespace changes.
C8_TagEncoding ==
    [][\A r \in Runs :
        TagsNow(r) =>
            LET n == TAG_PREFIX \o head
            IN  /\ n \in DOMAIN localTags'
                /\ localTags'[n].name = n
                /\ localTags'[n].target = tip[head]
                /\ localTags'[n].message
                       = Some(runs[r].title \o <<NL>> \o runs[r].description)
                /\ runs'[r].tagName = n
                /\ \A m \in DOMAIN localTags' \ {n} :
                       m \in DOMAIN localTags /\ localTags'[m] = localTags[m]]_vars

\* a tag made from an empty description: its message ends with the newline
C8_Witness ==
    \E r \in Runs :
        /\ runs[r].tag # None
        /\ runs[r].description = <<>>
        /\ runs[r].tagName \in DOMAIN localTags
        /\ localTags[runs[r].tagName].message = Some(runs[r].title \o <<NL>>)
        /\ localTags[runs[r].tagName].target > 1

\* the next step of run r can succeed in the current state
CanStep(r) ==
    /\ runs[r].pc = "add_tag" =>
           ENABLED (add_tag_Ok(r) /\ UNCHANGED <<repoVars, ns, fetched, storageOk>>
                    /\ NoListing)
    /\ runs[r].pc = "push_tag" =>
           ENABLED (push_tag_Ok(r) /\ UNCHANGED <<repoVars, ns, fetched, storageOk>>
                    /\ NoListing)
    /\ runs[r].pc = "push_branch" =>
           ENABLED (push_branch_Ok(r) /\ UNCHANGED <<repoVars, ns, fetched, storageOk>>
                    /\ NoListing)

Range(f) == {f[x] : x \in DOMAIN f}

\* the tags of the namespaces that can be read, each with its peer
Visible ==
    {<<LocalPeer, localTags[n]>> : n \in DOMAIN localTags}
    \cup UNION {{<<p, ns[p][1][n]>> : n \in DOMAIN ns[p][1]} :
                    p \in {x \in Peers : ns[x] # None}}

\* those of them that are patch tags and carry a message, which the listing shows
Shown == {v \in Visible : HasPrefix(v[2].name) /\ v[2].message # None}

\* the row that names the peer and the tag of a patch
AuthorRow(peer, t) ==
    [kind |-> "author", peer |-> peer, you |-> (peer = LocalPeer),
     id |-> <<t.name, t.target, t.message>>]

\* where the Merged section of a rendered table starts
MergedAt(t) == CHOOSE i \in 1..Len(t) : t[i] = [kind |-> "header", state |-> "Merged"]

\* the rows of the Open and of the Merged section of a rendered table
OpenRows(t) == {t[i] : i \in 1..(MergedAt(t) - 1)}
MergedRows(t) == {t[i] : i \in (MergedAt(t) + 1)..Len(t)}

RECURSIVE Within(_, _)
\* the commits within k parent edges of the commits S
Within(S, k) ==
    IF k = 0 THEN S ELSE Within(S \cup UNION {parents[c] : c \in S}, k - 1)

\* the commits of which c is a descendant, c included
History(c) == Within({c}, MaxCommits)

\* C5: with the storage open, a listing never fails, whichever tracked
\* namespaces are absent; an absent namespace gives no row, and every patch
\* of the local peer and of the tracked peers whose namespace can be read has
\* its row.
C5_AbsentNamespace ==
    /\ (listResult # "none" /\ storageOk) => listResult = "Ok"
    /\ listResult = "Ok" =>
           /\ \A v \in Shown : AuthorRow(v[1], v[2]) \in Range(table)
           /\ \A p \in Peers :
                  ns[p] = None =>
                      \A i \in 1..Len(table) :
                          table[i].kind = "author" => table[i].peer # p

\* the first tracked peer has no namespace: the listing succeeded and shows
\* the local patch and the second peer's
C5_Witness ==
    /\ listResult = "Ok"
    /\ ns[TrackedPeers[1]] = None
    /\ \E v \in Shown : v[1] = LocalPeer /\ AuthorRow(v[1], v[2]) \in Range(table)
    /\ \E v \in Shown : v[1] = TrackedPeers[2] /\ AuthorRow(v[1], v[2]) \in Range(table)

\* C6: a listed patch stands in the Merged section if and only if its target
\* commit is the default branch tip or a commit in its history, and in the
\* Open section otherwise; a target equal to the tip is Merged, a target
\* whose history shares no commit with the tip's is Open.
C6_Classifier ==
    (listResult = "Ok" /\ defaultTip # NoCommit) =>
        \A v \in Shown :
            LET row == AuthorRow(v[1], v[2])
                merged == v[2].target \in History(defaultTip)
            IN  /\ row \in MergedRows(table) <=> merged
                /\ row \in OpenRows(table) <=> ~merged
                /\ v[2].target = defaultTip => row \in MergedRows(table)
                /\ History(v[2].target) \cap History(defaultTip) = {}
                       => row \in OpenRows(table)

\* one listing with a patch at the default tip, a patch strictly behind it,
\* and a patch of an unrelated history
C6_Witness ==
    /\ listResult = "Ok"
    /\ \E v \in Shown :
           v[2].target = defaultTip /\ AuthorRow(v[1], v[2]) \in MergedRows(table)
    /\ \E v \in Shown :
           /\ v[2].target # defaultTip
           /\ AuthorRow(v[1], v[2]) \in MergedRows(table)
    /\ \E v \in Shown :
           /\ History(v[2].target) \cap History(defaultTip) = {}
           /\ AuthorRow(v[1], v[2]) \in OpenRows(table)

\* the tag of run r, as the local namespace holds it
TagOfRun(r) == localTags[runs[r].tagName]

\* C7: after a successful publication the tag is in the local namespace and
\* on the remote as it was created; every listing shows it, under Open while
\* its target is not in the history of the default branch tip and under
\* Merged once it is; Open lasts as long as the default branch does not move,
\* Merged lasts for good; neither a listing nor a move of the default branch
\* changes a tag.
C7_OpenUntilMerged ==
    /\ [](\A r \in Runs :
            runs[r].ret = "Ok" =>
                /\ runs[r].tagName \in DOMAIN localTags
                /\ runs[r].tagName \in DOMAIN remoteTags
                /\ runs[r].tag = Some(<<TagOfRun(r).name, TagOfRun(r).target,
                                       TagOfRun(r).message>>)
                /\ remoteTags[runs[r].tagName] = TagOfRun(r)
                /\ listResult = "Ok" =>
                       LET row == AuthorRow(LocalPeer, TagOfRun(r))
                           merged == TagOfRun(r).target \in History(defaultTip)
                       IN  /\ row \in OpenRows(table) <=> ~merged
                           /\ row \in MergedRows(table) <=> merged)
    /\ [][\A r \in Runs :
            (runs[r].ret = "Ok" /\ runs'[r].ret = "Ok") =>
                /\ TagOfRun(r).target \in History(defaultTip)
                       => (TagOfRun(r).target \in History(defaultTip))'
                /\ (TagOfRun(r).target \notin History(defaultTip)
                        /\ defaultTip' = defaultTip)
                       => (TagOfRun(r).target \notin History(defaultTip))']_vars
    /\ [][(defaultTip' # defaultTip \/ listResult' # "none")
              => localTags' = localTags /\ remoteTags' = remoteTags]_vars

\* a published patch, listed under Merged, whose target is not the commit
\* the default branch started at and is not the default branch tip
C7_Witness ==
    \E r \in Runs :
        /\ runs[r].ret = "Ok"
        /\ listResult = "Ok"
        /\ AuthorRow(LocalPeer, TagOfRun(r)) \in MergedRows(table)
        /\ TagOfRun(r).target # 1
        /\ TagOfRun(r).target # defaultTip

\* ============================================================ the codec
\* C9: for every branch name, every title that is one line (no newline in
\* it, no carriage return at its end) and every description, decoding the tag name and the tag message that the
\* publication wrote gives back the branch name, the title and the
\* description, and the listing shows the title.
C9_RoundTrip ==
    \A r \in Runs :
        (runs[r].tag # None /\ runs[r].tagName \in DOMAIN localTags) =>
            /\ decode(TagOfRun(r).name, TagOfRun(r).message)
                   = [source_ref_name |-> runs[r].branch,
                      title |-> runs[r].title,
                      description |-> runs[r].description]
            /\ listResult = "Ok" =>
                   [kind |-> "title", title |-> runs[r].title] \in Range(table)

\* a listed tag whose description has a line break and a carriage return
C9_Witness ==
    \E r \in Runs :
        /\ runs[r].tag # None
        /\ listResult = "Ok"
        /\ runs[r].title # <<>>
        /\ runs[r].description = <<CR, NL>>
        /\ [kind |-> "title", title |-> runs[r].title] \in Range(table)

\* ================================================= the discovered sequence
\* the peers in the order discovery visits them
PeerOrder == <<LocalPeer>> \o TrackedPeers

\* the namespace of peer p as a map, empty when it cannot be read
NsOf(p) ==
    IF p = LocalPeer THEN localTags
    ELSE IF ns[p] = None THEN <<>> ELSE ns[p][1]

\* the patch tags peer p holds
Held(p) == {n \in DOMAIN NsOf(p) : HasPrefix(n)}

RECURSIVE SumHeld(_)
\* the number of patch tags held by the peers PeerOrder[i..]
SumHeld(i) ==
    IF i > Len(PeerOrder) THEN 0 ELSE Cardinality(Held(PeerOrder[i])) + SumHeld(i + 1)

\* the position of x in the sequence s
IndexIn(s, x) == CHOOSE i \in 1..Len(s) : s[i] = x

\* the author rows of a rendered table, in the order they were pushed
AuthorRows(t) == SelectSeq(t, LAMBDA row : row.kind = "author")

\* the positions of a rendered table that hold the row of peer p's tag named n
RowsOf(t, p, n) ==
    {i \in 1..Len(t) : t[i].kind = "author" /\ t[i].peer = p /\ t[i].id[1] = n}

\* C11: the patches a listing works on are the local peer's followed by each
\* tracked peer's in tracked order, concatenated as they are: their number is
\* the sum of the numbers of patch tags the peers hold, within a section the
\* rows follow that order, and a tag name held by two peers gives two rows.
C11_Concatenated ==
    /\ Len(Retained("Open")) + Len(Retained("Merged")) = SumHeld(1)
    /\ \A st \in {"Open", "Merged"} :
           \A i, j \in 1..Len(Retained(st)) :
               i < j =>
                   LET a == Retained(st)[i]
                       b == Retained(st)[j]
                   IN  /\ IndexIn(PeerOrder, a.peer) <= IndexIn(PeerOrder, b.peer)
                       /\ a.peer = b.peer
                              => IndexIn(RefOrder, a.name) < IndexIn(RefOrder, b.name)
    /\ listResult = "Ok" =>
           /\ Len(AuthorRows(table)) = Cardinality(Shown)
           /\ \A p, q \in Range(PeerOrder), n \in Range(RefOrder) :
                  (/\ p # q
                   /\ <<p, n>> \in {<<v[1], v[2].name>> : v \in Shown}
                   /\ <<q, n>> \in {<<v[1], v[2].name>> : v \in Shown})
                      => /\ Cardinality(RowsOf(table, p, n)) = 1
                         /\ Cardinality(RowsOf(table, q, n)) = 1
           /\ \A i, j \in 1..Len(AuthorRows(table)) :
                  (/\ i < j
                   /\ AuthorRows(table)[i] \in OpenRows(table)
                          <=> AuthorRows(table)[j] \in OpenRows(table))
                      => IndexIn(PeerOrder, AuthorRows(table)[i].peer)
                             <= IndexIn(PeerOrder, AuthorRows(table)[j].peer)

\* the local peer and both tracked peers hold a tag of one name: the listing
\* has a row for each of the three, the local peer's first
C11_Witness ==
    /\ listResult = "Ok"
    /\ \E n \in Range(RefOrder) :
           /\ \A p \in Range(PeerOrder) :
                  n \in Held(p) /\ Cardinality(RowsOf(table, p, n)) = 1
           /\ \A i \in RowsOf(table, LocalPeer, n), j \in RowsOf(table, TrackedPeers[1], n) :
                  i < j

\* C12: the local peer's namespace is enumerated once: the peers of the
\* fan-out are the remotes other than the local peer, so with the local peer
\* among the remotes each of its patches is still worked on once and has one
\* row, marked as the user's own.
C12_LocalOnce ==
    /\ LocalPeer \in Range(Remotes)
    /\ \A st \in {"Open", "Merged"} :
           \A n \in Held(LocalPeer) :
               Cardinality({i \in 1..Len(Retained(st)) :
                               /\ Retained(st)[i].peer = LocalPeer
                               /\ Retained(st)[i].name = n})
                   = (IF state(PatchOf(LocalPeer, localTags[n])) = st THEN 1 ELSE 0)
    /\ listResult = "Ok" =>
           /\ \A n \in Held(LocalPeer) :
                  Cardinality(RowsOf(table, LocalPeer, n))
                      = (IF localTags[n].message # None THEN 1 ELSE 0)
           /\ \A i \in 1..Len(table) :
                  table[i].kind = "author" => (table[i].you <=> table[i].peer = LocalPeer)

\* a listing with the local peer's patch, shown once, beside a tracked peer's
C12_Witness ==
    /\ listResult = "Ok"
    /\ \E n \in Held(LocalPeer) : Cardinality(RowsOf(table, LocalPeer, n)) = 1
    /\ \E p \in Peers : \E n \in Held(p) : Cardinality(RowsOf(table, p, n)) = 1

\* ======================================== malformed tags, unresolved tip
\* the tags of the readable namespaces that are no patch: the name lacks the
\* fixed prefix, or there is no message
Malformed == Visible \ Shown

\* the title row of a tag that carries a message
TitleRow(t) == [kind |-> "title", title |-> Title(t.message[1])]

\* the patches a listing works on, of either state
Discovered == Retained("Open") \o Retained("Merged")

\* C13: a tag whose name lacks the fixed prefix, or that carries no message,
\* gives no row and fails no listing: every listing returns Ok, and every
\* patch tag with a message, of the same peer and of the others, is among the
\* patches worked on and has its title row and its author row.
C13_MalformedSkipped ==
    /\ listResult # "Err"
    /\ \A v \in Visible :
           ~HasPrefix(v[2].name) =>
               \A i \in 1..Len(Discovered) :
                   ~(Discovered[i].peer = v[1] /\ Discovered[i].name = v[2].name)
    /\ \A v \in Shown : PatchOf(v[1], v[2]) \in Range(Discovered)
    /\ listResult = "Ok" =>
           /\ \A v \in Shown :
                  /\ Cardinality(RowsOf(table, v[1], v[2].name)) = 1
                  /\ \A i \in RowsOf(table, v[1], v[2].name) :
                         table[i] = AuthorRow(v[1], v[2]) /\ table[i - 1] = TitleRow(v[2])
           /\ \A v \in Malformed : RowsOf(table, v[1], v[2].name) = {}

\* one peer holds a patch tag beside a tag that is no patch, the other a patch
\* tag without message: the listing shows the first peer's patch and the
\* local one
C13_Witness ==
    /\ listResult = "Ok"
    /\ \E p, q \in Peers :
           /\ p # q
           /\ OtherTag \in DOMAIN NsOf(p)
           /\ \E v \in Shown : v[1] = p /\ RowsOf(table, p, v[2].name) # {}
           /\ \E v \in Malformed : v[1] = q /\ HasPrefix(v[2].name)
    /\ \E v \in Shown : v[1] = LocalPeer /\ RowsOf(table, LocalPeer, v[2].name) # {}

\* C14: with the default branch tip unresolved a listing still returns Ok,
\* every patch is worked on as Open and none as Merged: every patch shown
\* stands under Open, and Merged holds the "No patches found." row alone.
C14_UnresolvedOpen ==
    defaultTip = NoCommit =>
        /\ listResult # "Err"
        /\ Retained("Merged") = <<>>
        /\ \A v \in Visible :
               HasPrefix(v[2].name) => PatchOf(v[1], v[2]) \in Range(Retained("Open"))
        /\ listResult = "Ok" =>
               /\ \A v \in Shown :
                      /\ AuthorRow(v[1], v[2]) \in OpenRows(table)
                      /\ AuthorRow(v[1], v[2]) \notin MergedRows(table)
               /\ MergedRows(table) = {BlankRow, [kind |-> "none"]}

\* the default branch was lost after a publication: the local patch and a
\* tracked peer's, both at the commit the default branch started at, are
\* listed under Open
C14_Witness ==
    /\ defaultTip = NoCommit
    /\ listResult = "Ok"
    /\ \E v \in Shown :
           v[1] = LocalPeer /\ v[2].target = 1 /\ AuthorRow(v[1], v[2]) \in OpenRows(table)
    /\ \E v \in Shown :
           v[1] \in Peers /\ v[2].target = 1 /\ AuthorRow(v[1], v[2]) \in OpenRows(table)

\* ================================================ what a failure reports
\* what create_patch handed back to its caller
Returned(r) == <<runs[r].ret, runs[r].err>>

\* C15: a run that failed reports which of the three steps failed: two runs
\* that failed at different steps hand different results to their callers.
C15_StepReported ==
    \A r, q \in Runs :
        \A i, j \in 1..Len(Steps) :
            (FailedAt(r, i) /\ FailedAt(q, j) /\ i # j) => Returned(r) # Returned(q)

\* ======================================================= the command line
\* the words that set an option
OptionWords == {"--list", "--verbose", "--sync", "--no-sync"}

\* run r has parsed its command line
Invoked(r) == runs[r].options # None \/ runs[r].out # "none"

\* the last of --sync / --no-sync in args decides; without any, sync is on
LastSync(args) ==
    LET at == {i \in 1..Len(args) : args[i] \in {"--sync", "--no-sync"}}
    IN  IF at = {} THEN TRUE
        ELSE args[CHOOSE i \in at : \A j \in at : j <= i] = "--sync"

\* C16: a command line is a sequence of options: when every word of it sets
\* an option, the parsed options have list and verbose set exactly when their
\* word occurs, and sync as the last of --sync / --no-sync says (on when
\* neither occurs); an unrecognised word at any position gives an error.
C16_EveryOption ==
    \A r \in Runs :
        Invoked(r) =>
            LET args == runs[r].args
            IN  /\ (\A i \in 1..Len(args) : args[i] \in OptionWords)
                       => runs[r].options =
                              Some([list |-> \E i \in 1..Len(args) : args[i] = "--list",
                                    verbose |-> \E i \in 1..Len(args) : args[i] = "--verbose",
                                    sync |-> LastSync(args)])
                /\ (\E i \in 1..Len(args) : args[i] = "--bogus")
                       => runs[r].options = None /\ runs[r].out \in {"unexpected", "Help"}

\* ============================================================ create
\* run r is a create run: its command line was parsed without --list
Creates(r) == runs[r].options # None /\ ~runs[r].options[1].list

\* C17: the seed is synced by default and not with --no-sync: a run whose
\* options have sync off never calls the sync; a create run with sync on that
\* returned Ok called it once, for the branch create read, and every call
\* comes after the patch record was written.
C17_SyncOption ==
    /\ from_args(<<>>).options.sync
    /\ ~from_args(<<"--no-sync">>).options.sync
    /\ [](\A r \in Runs :
            /\ Len(runs[r].synced) <= 1
            /\ (runs[r].options # None /\ ~runs[r].options[1].sync)
                   => runs[r].synced = <<>>
            /\ (Creates(r) /\ runs[r].options[1].sync /\ runs[r].out = "Ok")
                   => runs[r].synced = <<runs[r].current_branch>> /\ runs[r].record # None
            /\ (runs[r].args = <<>> /\ Creates(r) /\ runs[r].out = "Ok")
                   => runs[r].synced # <<>>
            /\ (runs[r].args # <<>> /\ runs[r].args[1] = "--no-sync")
                   => runs[r].synced = <<>>)
    /\ [][\A r \in Runs :
            runs'[r].synced # runs[r].synced => runs[r].record # None]_vars

\* rad patch --no-sync returned Ok: the patch record is written, no sync was called
C17_Witness ==
    \E r \in Runs :
        /\ runs[r].args = <<"--no-sync">>
        /\ runs[r].out = "Ok"
        /\ runs[r].record # None
        /\ runs[r].synced = <<>>

\* C18: when the user declines "Propose patch?" create returns the error
\* "Canceled." and nothing else happens: the step changes no tag, no branch
\* and nothing on the remote, and the run made no tag, attempted no step,
\* wrote no patch record and called no sync, then or later.
C18_Canceled ==
    /\ [](\A r \in Runs :
            runs[r].ret = "Canceled." =>
                /\ Outcome(r) = "Canceled."
                /\ runs[r].pc = "done"
                /\ runs[r].log = <<>>
                /\ runs[r].tag = None
                /\ runs[r].record = None
                /\ runs[r].synced = <<>>)
    /\ [][\A r \in Runs :
            (runs[r].ret # "Canceled." /\ runs'[r].ret = "Canceled.") =>
                /\ runs[r].pc = "idle"
                /\ UNCHANGED <<repoVars, localTags, remoteTags, remoteBranch, ns,
                               fetched, storageOk>>]_vars
    /\ [][\A r \in Runs : runs[r].ret = "Canceled." => runs'[r] = runs[r]]_vars

\* a declined run of a create command line, on a branch that has a commit
C18_Witness ==
    \E r \in Runs :
        /\ Creates(r)
        /\ Outcome(r) = "Canceled."
        /\ tip[head] > 1
        /\ localTags = <<>> /\ remoteTags = <<>>

\* C19: the patch record is written only after add_tag, push_tag and
\* push_branch all succeeded, and the sync is called only after the patch
\* record was written: a run in which one of the three steps failed has no
\* patch record and no sync, and returns the error.
C19_RecordAfterPipeline ==
    /\ [](\A r \in Runs :
            /\ runs[r].record # None
                   => /\ Len(runs[r].log) = Len(Steps)
                      /\ \A i \in 1..Len(Steps) :
                             runs[r].log[i] = [step |-> Steps[i], ok |-> TRUE]
                      /\ runs[r].ret = "Ok"
                      /\ runs[r].record[1].tag = runs[r].tag[1]
            /\ runs[r].synced # <<>> => runs[r].record # None
            /\ (\E i \in 1..Len(Steps) : FailedAt(r, i))
                   => /\ runs[r].record = None
                      /\ runs[r].synced = <<>>
                      /\ Outcome(r) = "Err")
    /\ [][\A r \in Runs :
            /\ runs'[r].record # runs[r].record
                   => runs[r].ret = "Ok" /\ runs[r].record = None /\ runs[r].synced = <<>>
            /\ runs'[r].synced # runs[r].synced => runs[r].record # None]_vars

\* a create run with sync on whose branch push failed: no record, no sync
C19_Witness ==
    \E r \in Runs :
        /\ Creates(r)
        /\ runs[r].options[1].sync
        /\ FailedAt(r, 3)
        /\ runs[r].record = None
        /\ runs[r].synced = <<>>
        /\ Outcome(r) = "Err"

\* ========================================================= the sections
\* C20: each section of a rendered listing holds either the rows of at least
\* one patch or the "No patches found." row, and never neither, whatever the
\* patches of its state carry as message.
C20_SectionNeverEmpty ==
    listResult = "Ok" =>
        \A rows \in {OpenRows(table), MergedRows(table)} :
            ([kind |-> "none"] \in rows) <=> ~(\E row \in rows : row.kind = "author")

====
